---- MODULE Spec2Model ----
(***************************************************************************)
(* Model of src/myapp/main.py: a FastAPI application whose "http"          *)
(* middleware log_requests wraps the routes POST /user/{user_id}/login,    *)
(* GET /logs/business and GET /hello, writes structured log lines and      *)
(* indexes documents into two OpenSearch indices.                          *)
(*                                                                         *)
(* The event loop runs the coroutines (log_requests, user_login, hello);   *)
(* get_business_logs is a plain def and runs in the worker thread pool.    *)
(* client is the synchronous OpenSearch client: a call of client.index     *)
(* made from a coroutine keeps the event loop's thread until it returns.   *)
(* The lines of app.log are kept per request (logs[r]); the console        *)
(* handler of APP_ENV=dev writes the same lines and is left out.           *)
(***************************************************************************)
EXTENDS Integers, Sequences, FiniteSets, TLC

\* ---- bounds of the model ----
MaxReq == 2        \* requests received during a run
MaxUser == 2       \* user ids 1..MaxUser
MaxTime == 1       \* the clock runs 0..MaxTime
MaxDocs == 2       \* business events stored before a query is studied

\* ---- program constants ----
SizeDefault == 50  \* Query(50, ...)
SizeMin == 1       \* ge=1
SizeMax == 1000    \* le=1000

BUSINESS_INDEX == "app-logs-business"
REQUEST_INDEX == "app-logs-requests"

Reqs == 1..MaxReq
Users == 1..MaxUser
Times == 0..MaxTime

\* An Optional[...] parameter is the empty set (None) or a singleton.
None == {}
Some(v) == {v}
Val(o) == CHOOSE v \in o : TRUE

VARIABLES
    pc,          \* pc[r]: where request r is in log_requests / its handler
    request,     \* request[r]: method, path and parameters of request r
    request_id,  \* request_id[r]: the uuid4 of log_requests
    start_time,  \* start_time[r]: utcnow() at the start of log_requests
    response,    \* response[r]: what call_next(request) returned
    sent,        \* sent[r]: the response the client received
    events,      \* events[r]: what was done for request r, in order
    logs,        \* logs[r]: the lines logger wrote while serving r
    attempts,    \* attempts[r]: the client.index calls made for r
    store,       \* store[index]: the documents of each OpenSearch index
    loop,        \* the request whose coroutine holds the event loop, or 0
    now          \* utcnow()

vars == <<pc, request, request_id, start_time, response, sent, events, logs,
          attempts, store, loop, now>>

\* ---------------------------------------------------------------------
\* Time stamps.  datetime.isoformat() + "Z": a naive datetime (utcnow(), or
\* a query parameter without offset) gives a well-formed UTC instant; an
\* aware datetime already ends in its offset ("+00:00"), and the appended
\* "Z" makes the text no date at all.
isoformatZ(dt) == [t |-> dt.t, valid |-> ~dt.aware]

utcnow == [t |-> now, aware |-> FALSE]

\* total_seconds() of the difference of two utcnow() values
total_seconds(a, b) == a.t - b.t

\* ---------------------------------------------------------------------
\* Logging: JsonFormatter, the file handler and the logger "myapp".
OptionalFields ==
    {"request_id", "user_id", "event", "method", "path", "status_code",
     "duration_s"}

levelno(levelname) == IF levelname = "ERROR" THEN 40 ELSE 20

\* JsonFormatter.format: the four fixed keys, then each optional attribute
\* the record has.
format(record) ==
    LET log_record ==
            ("@timestamp" :> isoformatZ(utcnow))
            @@ [level |-> record.levelname,
                logger |-> record.name,
                message |-> record.msg]
        present == DOMAIN record \cap OptionalFields
    IN  log_record @@ [f \in present |-> record[f]]

\* logging.LogRecord(name="myapp", level=..., msg=...) with its extra
\* attributes
LogRecord(levelname, msg, extra) ==
    [name |-> "myapp", levelname |-> levelname, msg |-> msg] @@ extra

\* Logger.handle with the file handler at level INFO: the lines of app.log
\* after the record was handled.
handle(lines, record) ==
    IF levelno(record.levelname) >= levelno("INFO")
    THEN Append(lines, format(record))
    ELSE lines

NoExtra == [f \in {} |-> f]

\* ---------------------------------------------------------------------
\* GET /logs/business: parameters, validation and the query.
size_of(q) == IF q.size = None THEN SizeDefault ELSE Val(q.size)

\* a bound off by one: gt=1 for ge=1
size_valid_exclusive(q) == size_of(q) > SizeMin /\ size_of(q) <= SizeMax

\* Query(50, ge=1, le=1000)
size_valid(q) == size_of(q) >= SizeMin /\ size_of(q) <= SizeMax

range_clause(q) ==
    (IF q.start_time # None
     THEN "gte" :> isoformatZ(Val(q.start_time))
     ELSE NoExtra)
    @@
    (IF q.end_time # None
     THEN "lte" :> isoformatZ(Val(q.end_time))
     ELSE NoExtra)

\* the range clause added only when both bounds are given
must_clauses_both_bounds(q) ==
    (IF q.user_id # None
     THEN <<[term |-> [user_id |-> Val(q.user_id)]]>>
     ELSE <<>>)
    \o
    (IF q.event # None
     THEN <<[term |-> [event |-> Val(q.event)]]>>
     ELSE <<>>)
    \o
    (IF q.start_time # None /\ q.end_time # None
     THEN <<[range |-> ("@timestamp" :> range_clause(q))]>>
     ELSE <<>>)

must_clauses(q) ==
    (IF q.user_id # None
     THEN <<[term |-> [user_id |-> Val(q.user_id)]]>>
     ELSE <<>>)
    \o
    (IF q.event # None
     THEN <<[term |-> [event |-> Val(q.event)]]>>
     ELSE <<>>)
    \o
    (IF q.start_time # None \/ q.end_time # None
     THEN <<[range |-> ("@timestamp" :> range_clause(q))]>>
     ELSE <<>>)

query_body(q) ==
    [query |-> [bool |-> [must |-> must_clauses(q)]],
     sort |-> <<"@timestamp" :> [order |-> "desc"]>>,
     size |-> size_of(q)]

\* ---------------------------------------------------------------------
\* The document store behind client: what a search of an index answers.
IsTerm(c) == "term" \in DOMAIN c
IsRange(c) == "range" \in DOMAIN c

\* a range bound the store cannot read as a date makes the search fail
WellFormed(body) ==
    \A k \in DOMAIN body.query.bool.must :
        LET c == body.query.bool.must[k]
        IN  IsRange(c) =>
                \A f \in DOMAIN c.range :
                    \A b \in DOMAIN c.range[f] : c.range[f][b].valid

Matches(doc, c) ==
    IF IsTerm(c)
    THEN \A f \in DOMAIN c.term : f \in DOMAIN doc /\ doc[f] = c.term[f]
    ELSE \A f \in DOMAIN c.range :
            /\ f \in DOMAIN doc
            /\ "gte" \in DOMAIN c.range[f] => doc[f].t >= c.range[f]["gte"].t
            /\ "lte" \in DOMAIN c.range[f] => doc[f].t =< c.range[f]["lte"].t

Matching(docs, body) ==
    {i \in DOMAIN docs :
        \A k \in DOMAIN body.query.bool.must :
            Matches(docs[i], body.query.bool.must[k])}

\* key of document i in the order the query asks for: the first (only) sort
\* field, descending or ascending
Before(docs, body, i, j) ==
    LET f == CHOOSE g \in DOMAIN body.sort[1] : TRUE
    IN  IF body.sort[1][f].order = "desc"
        THEN docs[i][f].t >= docs[j][f].t
        ELSE docs[i][f].t =< docs[j][f].t

Min(a, b) == IF a < b THEN a ELSE b

\* Every answer the store may give: the first `size` matching documents in
\* sort order, documents of equal sort key in any order.
search(docs, body) ==
    LET M == Matching(docs, body)
        n == Min(body.size, Cardinality(M))
        picks == {s \in [1..n -> M] :
                    /\ \A i, j \in 1..n : i < j =>
                            s[i] # s[j] /\ Before(docs, body, s[i], s[j])
                    /\ \A m \in M :
                            (\A i \in 1..n : s[i] # m) =>
                                \A i \in 1..n : Before(docs, body, s[i], m)}
    IN  {[k \in 1..n |-> [_source |-> docs[s[k]]]] : s \in picks}

\* ---------------------------------------------------------------------
\* The requests a client may send.
NoQuery ==
    [user_id |-> None, event |-> None, start_time |-> None,
     end_time |-> None, size |-> None]

NoRequest == [method |-> "", path |-> <<>>, route |-> "", q |-> NoQuery]

hello_request ==
    [method |-> "GET", path |-> <<"/hello">>, route |-> "hello",
     q |-> NoQuery]

\* POST /user/{user_id}/login; q.user_id carries the path parameter
login_request(u) ==
    [method |-> "POST", path |-> <<"/user/", u, "/login">>,
     route |-> "user_login", q |-> [NoQuery EXCEPT !.user_id = Some(u)]]

logs_request(q) ==
    [method |-> "GET", path |-> <<"/logs/business">>,
     route |-> "get_business_logs", q |-> q]

Optional(S) == {None} \cup {Some(v) : v \in S}

DateTimes ==
    {[t |-> t, aware |-> FALSE] : t \in Times} \cup {[t |-> 0, aware |-> TRUE]}

Sizes == {SizeMin - 1, SizeMin, SizeMax, SizeMax + 1}

Queries ==
    [user_id : Optional(Users), event : Optional({"user_login", "other"}),
     start_time : Optional(DateTimes), end_time : Optional(DateTimes),
     size : Optional(Sizes)]

\* the queries sent while other requests are in flight
FewQueries ==
    {q \in Queries :
        /\ q.event = None /\ q.end_time = None
        /\ q.start_time \in {None, Some([t |-> 0, aware |-> TRUE])}
        /\ q.user_id = None
        /\ q.size \in {None, Some(SizeMax + 1)}}

Requests ==
    {hello_request} \cup {login_request(u) : u \in Users}
    \cup {logs_request(q) : q \in FewQueries}

NoResponse == [status_code |-> 0, body |-> NoExtra]

Init ==
    /\ pc = [r \in Reqs |-> "new"]
    /\ request = [r \in Reqs |-> NoRequest]
    /\ request_id = [r \in Reqs |-> 0]
    /\ start_time = [r \in Reqs |-> [t |-> 0, aware |-> FALSE]]
    /\ response = [r \in Reqs |-> NoResponse]
    /\ sent = [r \in Reqs |-> NoResponse]
    /\ events = [r \in Reqs |-> <<>>]
    /\ logs = [r \in Reqs |-> <<>>]
    /\ attempts = [r \in Reqs |-> <<>>]
    /\ store = (BUSINESS_INDEX :> <<>>) @@ (REQUEST_INDEX :> <<>>)
    /\ loop = 0
    /\ now = 0

\* ---------------------------------------------------------------------
\* client.index(index=..., body=doc, refresh=True): the call as made, and
\* the store after it returned.
index_call(index, doc) ==
    [index |-> index, body |-> doc, refresh |-> TRUE, outcome |-> "pending"]

\* a write under a fixed document id: each call replaces the document
indexed_in_place(st, call) == [st EXCEPT ![call.index] = <<call.body>>]

indexed(st, call) == [st EXCEPT ![call.index] = Append(@, call.body)]

\* the last call of a request, completed
completed(calls, outcome) ==
    [calls EXCEPT ![Len(calls)] = [@ EXCEPT !.outcome = outcome]]

\* ---------------------------------------------------------------------
\* log_requests, lines 85-87: a request arrives; the middleware draws its
\* uuid4, reads the clock and awaits call_next.
log_requests_begin(r, req) ==
    /\ pc[r] = "new"
    /\ \A p \in Reqs : p < r => pc[p] # "new"
    /\ loop = 0
    /\ request' = [request EXCEPT ![r] = req]
    /\ request_id' = [request_id EXCEPT ![r] = r]
    /\ start_time' = [start_time EXCEPT ![r] = utcnow]
    /\ events' = [events EXCEPT ![r] = Append(@, "request_id")]
    /\ pc' = [pc EXCEPT ![r] = "call_next"]
    /\ UNCHANGED <<response, sent, logs, attempts, store, loop, now>>

\* GET /hello
hello(r) ==
    /\ pc[r] = "call_next"
    /\ request[r].route = "hello"
    /\ loop = 0
    /\ response' = [response EXCEPT ![r] =
            [status_code |-> 200, body |-> [message |-> "Hello, world!"]]]
    /\ events' = [events EXCEPT ![r] = Append(@, "handler_done")]
    /\ pc' = [pc EXCEPT ![r] = "returned"]
    /\ UNCHANGED <<request, request_id, start_time, sent, logs, attempts,
                   store, loop, now>>

\* the document built without the path parameter
login_doc_no_user(user_id) ==
    ("@timestamp" :> isoformatZ(utcnow))
    @@ [event |-> "user_login", user_id |-> 0,
        service |-> "user-service", message |-> "User login succeeded"]

\* the Business Event Document of user_login
login_doc(user_id) ==
    ("@timestamp" :> isoformatZ(utcnow))
    @@ [event |-> "user_login", user_id |-> user_id,
        service |-> "user-service", message |-> "User login succeeded"]

\* user_login, lines 123-135: the INFO line, the document, and the call of
\* client.index, made from the coroutine: the event loop waits in it.
user_login_begin(r) ==
    /\ pc[r] = "call_next"
    /\ request[r].route = "user_login"
    /\ loop = 0
    /\ LET user_id == Val(request[r].q.user_id)
           record == LogRecord("INFO", <<"user_login user_id=", user_id>>,
                               [user_id |-> user_id, event |-> "user_login"])
       IN  /\ logs' = [logs EXCEPT ![r] = handle(@, record)]
           /\ attempts' = [attempts EXCEPT ![r] =
                    Append(@, index_call(BUSINESS_INDEX, login_doc(user_id)))]
    /\ events' = [events EXCEPT ![r] = @ \o <<"login_info", "business_index">>]
    /\ loop' = r
    /\ pc' = [pc EXCEPT ![r] = "login_indexing"]
    /\ UNCHANGED <<request, request_id, start_time, response, sent, store,
                   now>>

\* user_login without the try/except around client.index
user_login_end_uncaught(r, ok) ==
    /\ pc[r] = "login_indexing"
    /\ loop = r
    /\ LET call == attempts[r][Len(attempts[r])]
       IN  IF ok
           THEN /\ store' = indexed(store, call)
                /\ attempts' = [attempts EXCEPT ![r] = completed(@, "created")]
                /\ response' = [response EXCEPT ![r] =
                        [status_code |-> 200,
                         body |-> [status |-> "ok",
                                   user_id |-> Val(request[r].q.user_id)]]]
                /\ events' = [events EXCEPT ![r] = Append(@, "handler_done")]
                /\ pc' = [pc EXCEPT ![r] = "returned"]
           ELSE /\ attempts' = [attempts EXCEPT ![r] =
                        completed(@, "ConnectionError")]
                /\ events' = [events EXCEPT ![r] = Append(@, "handler_raised")]
                /\ pc' = [pc EXCEPT ![r] = "raised"]
                /\ UNCHANGED <<store, response>>
    /\ loop' = 0
    /\ UNCHANGED <<request, request_id, start_time, sent, logs, now>>

\* user_login, lines 135-139: client.index returns or raises; the handler
\* answers.
user_login_end(r, ok) ==
    /\ pc[r] = "login_indexing"
    /\ loop = r
    /\ LET call == attempts[r][Len(attempts[r])]
           e == "ConnectionError"
           record == LogRecord("ERROR",
                        <<"OpenSearch indexing error (business log): ", e>>,
                        NoExtra)
       IN  IF ok
           THEN /\ store' = indexed(store, call)
                /\ attempts' = [attempts EXCEPT ![r] = completed(@, "created")]
                /\ UNCHANGED logs
           ELSE /\ attempts' = [attempts EXCEPT ![r] = completed(@, e)]
                /\ logs' = [logs EXCEPT ![r] = handle(@, record)]
                /\ UNCHANGED store
    /\ response' = [response EXCEPT ![r] =
            [status_code |-> 200,
             body |-> [status |-> "ok",
                       user_id |-> Val(request[r].q.user_id)]]]
    /\ events' = [events EXCEPT ![r] = Append(@, "handler_done")]
    /\ loop' = 0
    /\ pc' = [pc EXCEPT ![r] = "returned"]
    /\ UNCHANGED <<request, request_id, start_time, sent, now>>

\* get_business_logs, lines 142-148: the framework reads and validates the
\* parameters on the event loop; an invalid size is answered 422 without
\* the function being called, otherwise the function (a plain def) is
\* handed to a worker thread.
get_business_logs_begin(r) ==
    /\ pc[r] = "call_next"
    /\ request[r].route = "get_business_logs"
    /\ loop = 0
    /\ IF size_valid(request[r].q)
       THEN /\ pc' = [pc EXCEPT ![r] = "searching"]
            /\ events' = [events EXCEPT ![r] = Append(@, "search")]
            /\ UNCHANGED response
       ELSE /\ response' = [response EXCEPT ![r] =
                    [status_code |-> 422, body |-> [detail |-> "size"]]]
            /\ events' = [events EXCEPT ![r] = Append(@, "handler_done")]
            /\ pc' = [pc EXCEPT ![r] = "returned"]
    /\ UNCHANGED <<request, request_id, start_time, sent, logs, attempts,
                   store, loop, now>>

\* [hit["_source"] for hit in hits]
sources(hits) == [k \in DOMAIN hits |-> hits[k]._source]

\* get_business_logs, lines 149-170, in the worker thread: the query, the
\* search, and the answer; a search that raises leaves the function by the
\* exception.
get_business_logs_end(r, up) ==
    /\ pc[r] = "searching"
    /\ LET query == query_body(request[r].q)
       IN  IF up /\ WellFormed(query)
           THEN /\ \E hits \in search(store[BUSINESS_INDEX], query) :
                    response' = [response EXCEPT ![r] =
                        [status_code |-> 200, body |-> sources(hits)]]
                /\ events' = [events EXCEPT ![r] = Append(@, "handler_done")]
                /\ pc' = [pc EXCEPT ![r] = "returned"]
           ELSE /\ events' = [events EXCEPT ![r] = Append(@, "handler_raised")]
                /\ pc' = [pc EXCEPT ![r] = "raised"]
                /\ UNCHANGED response
    /\ UNCHANGED <<request, request_id, start_time, sent, logs, attempts,
                   store, loop, now>>

\* the Request Telemetry Document of log_requests
request_doc(r, duration) ==
    ("@timestamp" :> isoformatZ(start_time[r]))
    @@ [request_id |-> request_id[r],
        method |-> request[r].method,
        path |-> request[r].path,
        status_code |-> response[r].status_code,
        duration_s |-> duration]

\* log_requests, lines 88-115: call_next returned a response; the duration,
\* the INFO record, the document, and the call of client.index, made from
\* the coroutine: the event loop waits in it.
log_requests_after(r) ==
    /\ pc[r] = "returned"
    /\ loop = 0
    /\ LET duration == total_seconds(utcnow, start_time[r])
           record == LogRecord("INFO",
                        <<"request_id=", request_id[r],
                          " method=", request[r].method,
                          " path=", request[r].path,
                          " status=", response[r].status_code,
                          " duration=", duration>>,
                        [request_id |-> request_id[r],
                         method |-> request[r].method,
                         path |-> request[r].path,
                         status_code |-> response[r].status_code,
                         duration_s |-> duration])
       IN  /\ logs' = [logs EXCEPT ![r] = handle(@, record)]
           /\ attempts' = [attempts EXCEPT ![r] =
                    Append(@, index_call(REQUEST_INDEX, request_doc(r, duration)))]
    /\ events' = [events EXCEPT ![r] = @ \o <<"request_info", "request_index">>]
    /\ loop' = r
    /\ pc' = [pc EXCEPT ![r] = "request_indexing"]
    /\ UNCHANGED <<request, request_id, start_time, response, sent, store,
                   now>>

\* log_requests without the try/except around client.index
log_requests_end_uncaught(r, ok) ==
    /\ pc[r] = "request_indexing"
    /\ loop = r
    /\ LET call == attempts[r][Len(attempts[r])]
       IN  IF ok
           THEN /\ store' = indexed(store, call)
                /\ attempts' = [attempts EXCEPT ![r] = completed(@, "created")]
                /\ sent' = [sent EXCEPT ![r] = response[r]]
           ELSE /\ attempts' = [attempts EXCEPT ![r] =
                        completed(@, "ConnectionError")]
                /\ sent' = [sent EXCEPT ![r] =
                        [status_code |-> 500,
                         body |-> [text |-> "Internal Server Error"]]]
                /\ UNCHANGED store
    /\ events' = [events EXCEPT ![r] = Append(@, "response")]
    /\ loop' = 0
    /\ pc' = [pc EXCEPT ![r] = "done"]
    /\ UNCHANGED <<request, request_id, start_time, response, logs, now>>

\* log_requests, lines 115-119: client.index returns or raises; the
\* middleware returns the response of call_next.
log_requests_end(r, ok) ==
    /\ pc[r] = "request_indexing"
    /\ loop = r
    /\ LET call == attempts[r][Len(attempts[r])]
           e == "ConnectionError"
           record == LogRecord("ERROR",
                        <<"OpenSearch indexing error (request log): ", e>>,
                        NoExtra)
       IN  IF ok
           THEN /\ store' = indexed(store, call)
                /\ attempts' = [attempts EXCEPT ![r] = completed(@, "created")]
                /\ UNCHANGED logs
           ELSE /\ attempts' = [attempts EXCEPT ![r] = completed(@, e)]
                /\ logs' = [logs EXCEPT ![r] = handle(@, record)]
                /\ UNCHANGED store
    /\ sent' = [sent EXCEPT ![r] = response[r]]
    /\ events' = [events EXCEPT ![r] = Append(@, "response")]
    /\ loop' = 0
    /\ pc' = [pc EXCEPT ![r] = "done"]
    /\ UNCHANGED <<request, request_id, start_time, response, now>>

\* log_requests, line 87: the handler raised; the await of call_next raises
\* in turn, nothing catches it in log_requests, and the server's error
\* middleware above it answers 500.
log_requests_raise(r) ==
    /\ pc[r] = "raised"
    /\ loop = 0
    /\ sent' = [sent EXCEPT ![r] =
            [status_code |-> 500,
             body |-> [text |-> "Internal Server Error"]]]
    /\ events' = [events EXCEPT ![r] = Append(@, "response")]
    /\ pc' = [pc EXCEPT ![r] = "done"]
    /\ UNCHANGED <<request, request_id, start_time, response, logs, attempts,
                   store, loop, now>>

\* The clock advances.  Its reading changes between bursts of requests;
\* the utcnow() calls made while a request is in flight read one instant.
Tick ==
    /\ now < MaxTime
    /\ \A r \in Reqs : pc[r] \in {"new", "done"}
    /\ now' = now + 1
    /\ UNCHANGED <<pc, request, request_id, start_time, response, sent,
                   events, logs, attempts, store, loop>>

Next ==
    \/ \E r \in Reqs : \E req \in Requests : log_requests_begin(r, req)
    \/ \E r \in Reqs : hello(r)
    \/ \E r \in Reqs : user_login_begin(r)
    \/ \E r \in Reqs : \E ok \in BOOLEAN : user_login_end(r, ok)
    \/ \E r \in Reqs : get_business_logs_begin(r)
    \/ \E r \in Reqs : \E up \in BOOLEAN : get_business_logs_end(r, up)
    \/ \E r \in Reqs : log_requests_after(r)
    \/ \E r \in Reqs : \E ok \in BOOLEAN : log_requests_end(r, ok)
    \/ \E r \in Reqs : log_requests_raise(r)
    \/ Tick

Spec == Init /\ [][Next]_vars

\* ---------------------------------------------------------------------
\* The query endpoint on its own: one GET /logs/business, with any
\* parameters, against a business index that earlier logins have filled.
StoredLogins ==
    {("@timestamp" :> isoformatZ([t |-> t, aware |-> FALSE]))
     @@ [event |-> "user_login", user_id |-> u,
         service |-> "user-service", message |-> "User login succeeded"] :
        t \in Times, u \in Users}

\* the documents in the order the logins stored them
BusinessStores ==
    UNION {{docs \in [1..n -> StoredLogins] :
                \A i, j \in 1..n :
                    i < j => docs[i]["@timestamp"].t =< docs[j]["@timestamp"].t} :
           n \in 0..MaxDocs}

InitQuery ==
    /\ pc = [r \in Reqs |-> "new"]
    /\ request = [r \in Reqs |-> NoRequest]
    /\ request_id = [r \in Reqs |-> 0]
    /\ start_time = [r \in Reqs |-> [t |-> 0, aware |-> FALSE]]
    /\ response = [r \in Reqs |-> NoResponse]
    /\ sent = [r \in Reqs |-> NoResponse]
    /\ events = [r \in Reqs |-> <<>>]
    /\ logs = [r \in Reqs |-> <<>>]
    /\ attempts = [r \in Reqs |-> <<>>]
    /\ \E docs \in BusinessStores :
            store = (BUSINESS_INDEX :> docs) @@ (REQUEST_INDEX :> <<>>)
    /\ loop = 0
    /\ now = MaxTime

NextQuery ==
    \/ pc[1] = "new" /\ \E q \in Queries : log_requests_begin(1, logs_request(q))
    \/ get_business_logs_begin(1)
    \/ \E up \in BOOLEAN : get_business_logs_end(1, up)
    \/ log_requests_after(1)
    \/ \E ok \in BOOLEAN : log_requests_end(1, ok)
    \/ log_requests_raise(1)

SpecQuery == InitQuery /\ [][NextQuery]_vars

\* =====================================================================
\* Properties.
Route(r) == request[r].route

\* the client.index calls request r made on an index
Calls(r, index) == {k \in DOMAIN attempts[r] : attempts[r][k].index = index}

\* such a call has raised
Failed(r, index) ==
    \E k \in Calls(r, index) :
        attempts[r][k].outcome \notin {"pending", "created"}

\* a line of the given level whose message starts with the given text
HasLine(r, level, text) ==
    \E k \in DOMAIN logs[r] :
        logs[r][k].level = level /\ logs[r][k].message[1] = text

Answered(r) == pc[r] \in {"returned", "request_indexing", "done"}

\* C1: every request, whether its handler returns or fails, makes exactly
\* one submission of a Request Telemetry Document, and the document carries
\* the status code of the response the client got.
C1_OneTelemetryPerRequest ==
    \A r \in Reqs :
        /\ Cardinality(Calls(r, REQUEST_INDEX)) =< 1
        /\ pc[r] = "done" =>
            /\ Cardinality(Calls(r, REQUEST_INDEX)) = 1
            /\ \A k \in Calls(r, REQUEST_INDEX) :
                    attempts[r][k].body.status_code = sent[r].status_code

\* C2: when client.index raises in user_login, the login is still answered
\* 200 {"status": "ok", "user_id": <the same id>}, an ERROR line tagged
\* "business log" is written, and the failure never reaches the caller.
C2_LoginSurvivesSinkFailure ==
    \A r \in Reqs :
        (Route(r) = "user_login" /\ Failed(r, BUSINESS_INDEX)) =>
            LET answer == [status_code |-> 200,
                           body |-> [status |-> "ok",
                                     user_id |-> Val(request[r].q.user_id)]]
            IN  /\ Answered(r)
                /\ response[r] = answer
                /\ HasLine(r, "ERROR",
                           "OpenSearch indexing error (business log): ")
                /\ pc[r] = "done" => sent[r] = answer

C2_Witness ==
    \E r \in Reqs :
        /\ Route(r) = "user_login"
        /\ Failed(r, BUSINESS_INDEX)
        /\ pc[r] = "done"
        /\ sent[r].status_code = 200

\* C3: a login makes exactly one submission to the business index, of a
\* document with event "user_login" and the login's user_id, whether the
\* sink answers or fails; no request ever makes a second one.
C3_OneBusinessEventPerLogin ==
    \A r \in Reqs :
        /\ Cardinality(Calls(r, BUSINESS_INDEX)) =< 1
        /\ (Route(r) = "user_login" /\ pc[r] \notin {"new", "call_next"}) =>
            /\ Cardinality(Calls(r, BUSINESS_INDEX)) = 1
            /\ \A k \in Calls(r, BUSINESS_INDEX) :
                    /\ attempts[r][k].body.event = "user_login"
                    /\ attempts[r][k].body.user_id = Val(request[r].q.user_id)
        /\ Route(r) # "user_login" => Calls(r, BUSINESS_INDEX) = {}

C3_Witness ==
    \E r \in Reqs :
        /\ Route(r) = "user_login"
        /\ pc[r] = "done"
        /\ Failed(r, BUSINESS_INDEX)
        /\ Cardinality(Calls(r, BUSINESS_INDEX)) = 1

\* C4: when the submission of the Request Telemetry Document fails, an
\* ERROR line tagged "request log" is written, the submission is not made
\* again, nothing is raised, and the client gets exactly the response the
\* handler produced.
C4_TelemetryFailureHidden ==
    \A r \in Reqs :
        Failed(r, REQUEST_INDEX) =>
            /\ pc[r] = "done"
            /\ sent[r] = response[r]
            /\ HasLine(r, "ERROR", "OpenSearch indexing error (request log): ")
            /\ Cardinality(Calls(r, REQUEST_INDEX)) = 1

C4_Witness ==
    \E r \in Reqs :
        /\ Failed(r, REQUEST_INDEX)
        /\ Route(r) = "user_login"
        /\ sent[r].status_code = 200

\* C7: GET /hello is answered 200 {"message": "Hello, world!"} whatever the
\* document store does.
C7_HelloAlwaysOk ==
    \A r \in Reqs :
        Route(r) = "hello" =>
            /\ pc[r] # "raised"
            /\ pc[r] = "done" =>
                sent[r] = [status_code |-> 200,
                           body |-> [message |-> "Hello, world!"]]

C7_Witness ==
    \E r \in Reqs :
        /\ Route(r) = "hello"
        /\ pc[r] = "done"
        /\ Failed(r, REQUEST_INDEX)

\* C8: both indices are append-only: a step never changes or removes a
\* stored document, and a step of get_business_logs leaves both indices as
\* they were.
C8_AppendOnly ==
    [][/\ \A i \in DOMAIN store :
            /\ Len(store'[i]) >= Len(store[i])
            /\ SubSeq(store'[i], 1, Len(store[i])) = store[i]
       /\ (\E r \in Reqs :
                /\ Route(r) = "get_business_logs"
                /\ pc[r] \in {"call_next", "searching"}
                /\ pc'[r] # pc[r])
            => store' = store]_vars

C8_Witness ==
    /\ Len(store[REQUEST_INDEX]) >= 2
    /\ Len(store[BUSINESS_INDEX]) >= 1
    /\ \E r \in Reqs :
            /\ Route(r) = "get_business_logs"
            /\ pc[r] = "done"
            /\ sent[r].status_code = 200

\* C9: a request waiting on its handler or on a sink submission never keeps
\* another request in flight from making progress.
Waiting(r) ==
    pc[r] \in {"call_next", "searching", "login_indexing", "request_indexing"}

\* request r has a step of a coroutine to take
Ready(r) == pc[r] \in {"call_next", "returned", "raised"}

C9_NoRequestBlocksAnother ==
    \A r1, r2 \in Reqs :
        (r1 # r2 /\ Waiting(r1) /\ Ready(r2)) => loop \in {0, r2}

\* C10: within a request the steps occur in one order: request id and
\* start time, the handler to its end (for a login the INFO line, then the
\* business submission), the request INFO line, the telemetry submission,
\* and only then the response.
C10_FixedOrder ==
    \A r \in Reqs :
        pc[r] = "done" =>
            LET ev == events[r]
                n == Len(ev)
            IN  /\ n >= 5
                /\ ev[1] = "request_id"
                /\ ev[n - 3] = "handler_done"
                /\ ev[n - 2] = "request_info"
                /\ ev[n - 1] = "request_index"
                /\ ev[n] = "response"
                /\ Route(r) = "user_login" =>
                        SubSeq(ev, 2, 3) = <<"login_info", "business_index">>

\* ---------------------------------------------------------------------
\* The query endpoint (checked under SpecQuery).
Stamp(doc) == doc["@timestamp"].t

\* document doc passes every filter that query q supplies
PassesFilters(doc, q) ==
    /\ q.user_id # None => doc.user_id = Val(q.user_id)
    /\ q.event # None => doc.event = Val(q.event)
    /\ q.start_time # None => Stamp(doc) >= Val(q.start_time).t
    /\ q.end_time # None => Stamp(doc) =< Val(q.end_time).t

\* C5: for every combination of filters the query is a conjunction of one
\* equality clause per supplied exact-match filter and one range clause on
\* the time stamp iff a time bound is supplied, with a lower bound iff
\* start_time and an upper bound iff end_time are supplied; it sorts by the
\* time stamp descending and carries the requested size; what is returned
\* are stored documents that pass every supplied filter, most recent first.
C5_QueryMatchesFilters ==
    \A r \in Reqs :
        Route(r) = "get_business_logs" =>
            LET q == request[r].q
                body == query_body(q)
                must == body.query.bool.must
                terms(f) == {k \in DOMAIN must :
                                IsTerm(must[k]) /\ DOMAIN must[k].term = {f}}
                ranges == {k \in DOMAIN must : IsRange(must[k])}
                timed == q.start_time # None \/ q.end_time # None
            IN  /\ Cardinality(terms("user_id")) = IF q.user_id = None THEN 0 ELSE 1
                /\ \A k \in terms("user_id") :
                        must[k].term.user_id = Val(q.user_id)
                /\ Cardinality(terms("event")) = IF q.event = None THEN 0 ELSE 1
                /\ \A k \in terms("event") : must[k].term.event = Val(q.event)
                /\ Cardinality(ranges) = IF timed THEN 1 ELSE 0
                /\ \A k \in ranges :
                        /\ DOMAIN must[k].range = {"@timestamp"}
                        /\ "gte" \in DOMAIN must[k].range["@timestamp"]
                                <=> q.start_time # None
                        /\ "lte" \in DOMAIN must[k].range["@timestamp"]
                                <=> q.end_time # None
                        /\ DOMAIN must[k].range["@timestamp"] \subseteq {"gte", "lte"}
                /\ Len(must) = Cardinality(terms("user_id"))
                                + Cardinality(terms("event")) + Cardinality(ranges)
                /\ Len(body.sort) = 1
                /\ DOMAIN body.sort[1] = {"@timestamp"}
                /\ body.sort[1]["@timestamp"].order = "desc"
                /\ body.size = IF q.size = None THEN 50 ELSE Val(q.size)
                /\ (Answered(r) /\ response[r].status_code = 200) =>
                        LET hits == response[r].body
                        IN  /\ \A k \in DOMAIN hits :
                                    /\ PassesFilters(hits[k], q)
                                    /\ \E i \in DOMAIN store[BUSINESS_INDEX] :
                                            store[BUSINESS_INDEX][i] = hits[k]
                            /\ \A j, k \in DOMAIN hits :
                                    j < k => Stamp(hits[j]) >= Stamp(hits[k])
                            /\ Len(hits) =< body.size
                            /\ \* nothing more recent was left out
                               \A i \in DOMAIN store[BUSINESS_INDEX] :
                                    LET doc == store[BUSINESS_INDEX][i]
                                    IN  PassesFilters(doc, q) =>
                                            \/ \E k \in DOMAIN hits : hits[k] = doc
                                            \/ /\ Len(hits) = body.size
                                               /\ \A k \in DOMAIN hits :
                                                    Stamp(hits[k]) >= Stamp(doc)

C5_Witness ==
    \E r \in Reqs :
        /\ Route(r) = "get_business_logs"
        /\ pc[r] = "done"
        /\ sent[r].status_code = 200
        /\ request[r].q.user_id # None /\ request[r].q.event # None
        /\ request[r].q.start_time # None /\ request[r].q.end_time # None
        /\ Len(sent[r].body) = 1
        /\ Len(store[BUSINESS_INDEX]) = 2

\* C6: size is accepted in [1, 1000] only, 50 when omitted: a value outside
\* the range is answered with a 4xx error and no search is made; a value
\* inside it is passed unchanged as the size of the query.
C6_SizeBounds ==
    \A r \in Reqs :
        (Route(r) = "get_business_logs" /\ pc[r] \notin {"new", "call_next"}) =>
            LET q == request[r].q
                n == IF q.size = None THEN 50 ELSE Val(q.size)
                searched == \E k \in DOMAIN events[r] : events[r][k] = "search"
            IN  IF n >= 1 /\ n =< 1000
                THEN /\ searched
                     /\ query_body(q).size = n
                     /\ response[r].status_code \in {0, 200}
                     /\ pc[r] = "done" => sent[r].status_code \in {200, 500}
                     /\ response[r].status_code = 200 =>
                            Len(response[r].body) =< n
                ELSE /\ ~searched
                     /\ response[r].status_code = 422
                     /\ pc[r] = "done" => sent[r].status_code = 422

C6_Witness ==
    \E r \in Reqs :
        /\ Route(r) = "get_business_logs"
        /\ request[r].q.size = Some(1001)
        /\ pc[r] = "done"
        /\ sent[r].status_code = 422

====
